---- MODULE Spec2Model ----
(***************************************************************************)
(* Image encryption utility: key_generate.py derives a Fernet key from a   *)
(* passphrase (SHA-256, URL-safe base64) and main.py is the Streamlit      *)
(* script that encrypts an uploaded image or decrypts an uploaded blob.    *)
(* Streamlit reruns main() from the top on every widget event, so every    *)
(* UI action below is the widget change followed by one whole run of main. *)
(***************************************************************************)
EXTENDS Integers, Sequences, FiniteSets, TLC

VARIABLES option, user_input, file, key, out, disk, diskSrc, memo

vars == << option, user_input, file, key, out, disk, diskSrc, memo >>

(***************************************************************************)
(* Bounds of the model.                                                    *)
(***************************************************************************)
\* Fernet draws a fresh IV (os.urandom) per encryption: IVs are 0..MaxIV.
MaxIV == 1
\* Fernet stamps int(time.time()) into the token: timestamps are 0..MaxTime.
MaxTime == 1

(***************************************************************************)
(* Python values.  A str is a sequence of code points, a bytes object a    *)
(* sequence of 0..255; the type tag is what isinstance() reads.            *)
(***************************************************************************)
Str(cps) == [type |-> "str", data |-> cps]
Bytes(bs) == [type |-> "bytes", data |-> bs]
None == [type |-> "NoneType", data |-> << >>]

\* Results of calls that may raise: a value, or the class of the exception.
Ok(v) == [ok |-> TRUE, val |-> v, exc |-> ""]
Raise(e) == [ok |-> FALSE, val |-> None, exc |-> e]

RECURSIVE Flatten(_)
Flatten(ss) == IF Len(ss) = 0 THEN << >> ELSE Head(ss) \o Flatten(Tail(ss))

\* str.encode('utf-8') of one code point.
EncodeCodePoint(c) ==
    IF c < 128 THEN << c >>
    ELSE IF c < 2048 THEN << 192 + (c \div 64), 128 + (c % 64) >>
    ELSE IF c < 65536
         THEN << 224 + (c \div 4096), 128 + ((c \div 64) % 64), 128 + (c % 64) >>
         ELSE << 240 + (c \div 262144), 128 + ((c \div 4096) % 64),
                 128 + ((c \div 64) % 64), 128 + (c % 64) >>

\* str.encode('utf-8') / str.encode(): str -> bytes.
encode(s) == Bytes(Flatten([i \in 1..Len(s.data) |-> EncodeCodePoint(s.data[i])]))

\* bytes.decode('utf-8') on a sequence of bytes: the code points, or
\* UnicodeDecodeError on a malformed sequence.
RECURSIVE DecodeUtf8(_)
DecodeUtf8(bs) ==
    IF Len(bs) = 0 THEN Ok(<< >>)
    ELSE LET b == Head(bs)
             n == IF b < 128 THEN 1 ELSE IF b >= 192 /\ b < 224 THEN 2
                  ELSE IF b >= 224 /\ b < 240 THEN 3
                  ELSE IF b >= 240 /\ b < 248 THEN 4 ELSE 0
             lead == IF n = 1 THEN b ELSE IF n = 2 THEN b - 192
                     ELSE IF n = 3 THEN b - 224 ELSE b - 240
             cont(k) == bs[k] >= 128 /\ bs[k] < 192
             cp == IF n = 1 THEN lead
                   ELSE IF n = 2 THEN lead * 64 + (bs[2] - 128)
                   ELSE IF n = 3 THEN lead * 4096 + (bs[2] - 128) * 64 + (bs[3] - 128)
                   ELSE lead * 262144 + (bs[2] - 128) * 4096 + (bs[3] - 128) * 64
                        + (bs[4] - 128)
         IN IF n = 0 \/ Len(bs) < n \/ \E k \in 2..n : ~cont(k)
            THEN Raise("UnicodeDecodeError")
            ELSE LET rest == DecodeUtf8(SubSeq(bs, n + 1, Len(bs)))
                 IN IF rest.ok THEN Ok(<< cp >> \o rest.val) ELSE rest

decode(b) ==
    LET r == DecodeUtf8(b.data)
    IN IF r.ok THEN Ok(Str(r.val)) ELSE r

(***************************************************************************)
(* hashlib.sha256: FIPS 180-4 SHA-256.  A 32-bit word is a pair            *)
(* <<high 16 bits, low 16 bits>>.                                          *)
(***************************************************************************)
Half == 65536

Pow2 == << 1, 2, 4, 8, 16, 32, 64, 128, 256, 512, 1024, 2048, 4096, 8192, 16384,
           32768, 65536 >>

\* Bitwise a XOR b XOR c on 16-bit halves.
RECURSIVE Xor3h(_, _, _)
Xor3h(a, b, c) ==
    IF a = 0 /\ b = 0 /\ c = 0 THEN 0
    ELSE ((a + b + c) % 2) + 2 * Xor3h(a \div 2, b \div 2, c \div 2)

\* Bitwise (e AND f) XOR (NOT e AND g) on 16-bit halves.
RECURSIVE Chh(_, _, _)
Chh(e, f, g) ==
    IF e = 0 /\ g = 0 THEN 0
    ELSE (IF e % 2 = 1 THEN f % 2 ELSE g % 2) + 2 * Chh(e \div 2, f \div 2, g \div 2)

\* Bitwise majority on 16-bit halves.
RECURSIVE Majh(_, _, _)
Majh(a, b, c) ==
    IF a + b + c = 0 THEN 0
    ELSE (IF (a % 2) + (b % 2) + (c % 2) >= 2 THEN 1 ELSE 0)
         + 2 * Majh(a \div 2, b \div 2, c \div 2)

Xor3(a, b, c) == << Xor3h(a[1], b[1], c[1]), Xor3h(a[2], b[2], c[2]) >>
Ch(e, f, g) == << Chh(e[1], f[1], g[1]), Chh(e[2], f[2], g[2]) >>
Maj(a, b, c) == << Majh(a[1], b[1], c[1]), Majh(a[2], b[2], c[2]) >>

\* Addition modulo 2^32.
Add(a, b) ==
    LET lo == a[2] + b[2]
    IN << (a[1] + b[1] + (lo \div Half)) % Half, lo % Half >>

\* Rotate right by n, 0 < n < 32.
RotR(v, n) ==
    LET w == IF n >= 16 THEN << v[2], v[1] >> ELSE v
        k == n % 16
        p == Pow2[k + 1]
        q == Pow2[17 - k]
    IN IF k = 0 THEN w
       ELSE << (w[1] \div p) + (w[2] % p) * q, (w[2] \div p) + (w[1] % p) * q >>

\* Shift right by n, 0 < n < 16.
ShR(v, n) ==
    LET p == Pow2[n + 1]
        q == Pow2[17 - n]
    IN << v[1] \div p, (v[2] \div p) + (v[1] % p) * q >>

SHA256_K ==
    <<
       <<17034, 12184>>, <<28983, 17553>>, <<46528, 64463>>, <<59829, 56229>>,
       <<14678, 49755>>, <<23025, 4593>>, <<37439, 33444>>, <<43804, 24277>>,
       <<55303, 43672>>, <<4739, 23297>>, <<9265, 34238>>, <<21772, 32195>>,
       <<29374, 23924>>, <<32990, 45566>>, <<39900, 1703>>, <<49563, 61812>>,
       <<58523, 27073>>, <<61374, 18310>>, <<4033, 40390>>, <<9228, 41420>>,
       <<11753, 11375>>, <<19060, 33962>>, <<23728, 43484>>, <<30457, 35034>>,
       <<38974, 20818>>, <<43057, 50797>>, <<45059, 10184>>, <<48985, 32711>>,
       <<50912, 3059>>, <<54695, 37191>>, <<1738, 25425>>, <<5161, 10599>>,
       <<10167, 2693>>, <<11803, 8504>>, <<19756, 28156>>, <<21304, 3347>>,
       <<25866, 29524>>, <<30314, 2747>>, <<33218, 51502>>, <<37490, 11397>>,
       <<41663, 59553>>, <<43034, 26187>>, <<49739, 35696>>, <<51052, 20899>>,
       <<53650, 59417>>, <<54937, 1572>>, <<62478, 13701>>, <<4202, 41072>>,
       <<6564, 49430>>, <<7735, 27656>>, <<10056, 30540>>, <<13488, 48309>>,
       <<14620, 3251>>, <<20184, 43594>>, <<23452, 51791>>, <<26670, 28659>>,
       <<29839, 33518>>, <<30885, 25455>>, <<33992, 30740>>, <<36039, 520>>,
       <<37054, 65530>>, <<42064, 27883>>, <<48889, 41975>>, <<50801, 30962>>
    >>

SHA256_H0 ==
    <<
       <<27145, 58983>>, <<47975, 44677>>, <<15470, 62322>>, <<42319, 62778>>,
       <<20750, 21119>>, <<39685, 26764>>, <<8067, 55723>>, <<23520, 52505>>
    >>

RECURSIVE Zeros(_)
Zeros(n) == IF n = 0 THEN << >> ELSE << 0 >> \o Zeros(n - 1)

\* Padding: 0x80, zeros up to 56 mod 64, then the bit length as 64 bits.
Pad(msg) ==
    LET l == Len(msg)
        bits == 8 * l
    IN msg \o << 128 >> \o Zeros((119 - (l % 64)) % 64)
           \o << 0, 0, 0, 0, (bits \div 16777216) % 256, (bits \div 65536) % 256,
                 (bits \div 256) % 256, bits % 256 >>

RECURSIVE Schedule(_)
Schedule(w) ==
    IF Len(w) = 64 THEN w
    ELSE LET t == Len(w) + 1
             s0 == Xor3(RotR(w[t - 15], 7), RotR(w[t - 15], 18), ShR(w[t - 15], 3))
             s1 == Xor3(RotR(w[t - 2], 17), RotR(w[t - 2], 19), ShR(w[t - 2], 10))
         IN Schedule(Append(w, Add(Add(w[t - 16], s0), Add(w[t - 7], s1))))

RECURSIVE Rounds(_, _, _)
Rounds(s, w, t) ==
    IF Len(s) # 8 \/ t > 64 THEN s
    ELSE LET S1 == Xor3(RotR(s[5], 6), RotR(s[5], 11), RotR(s[5], 25))
             t1 == Add(Add(Add(s[8], S1), Add(Ch(s[5], s[6], s[7]), SHA256_K[t])), w[t])
             S0 == Xor3(RotR(s[1], 2), RotR(s[1], 13), RotR(s[1], 22))
             t2 == Add(S0, Maj(s[1], s[2], s[3]))
         IN Rounds(<< Add(t1, t2), s[1], s[2], s[3], Add(s[4], t1), s[5], s[6], s[7] >>,
                   w, t + 1)

Compress(h, block) ==
    LET w0 == [i \in 1..16 |-> << block[4 * i - 3] * 256 + block[4 * i - 2],
                                  block[4 * i - 1] * 256 + block[4 * i] >>]
        s == Rounds(h, Schedule(w0), 1)
    IN [i \in 1..8 |-> Add(h[i], s[i])]

RECURSIVE Blocks(_, _)
Blocks(h, m) ==
    IF Len(m) = 0 THEN h
    ELSE Blocks(Compress(h, SubSeq(m, 1, 64)), SubSeq(m, 65, Len(m)))

\* The eight state words as 32 bytes, big-endian.
DigestBytes(h) ==
    Flatten([i \in 1..8 |-> << h[i][1] \div 256, h[i][1] % 256,
                               h[i][2] \div 256, h[i][2] % 256 >>])

\* hashlib.sha256(msg).digest()
sha256(msg) == DigestBytes(Blocks(SHA256_H0, Pad(msg)))

(***************************************************************************)
(* base64.urlsafe_b64encode / urlsafe_b64decode over ASCII codes.          *)
(***************************************************************************)
PadChar == 61

\* The URL-safe alphabet: A-Z a-z 0-9 - _
B64Char(i) ==
    IF i < 26 THEN 65 + i
    ELSE IF i < 52 THEN 97 + (i - 26)
    ELSE IF i < 62 THEN 48 + (i - 52)
    ELSE IF i = 62 THEN 45 ELSE 95

\* The sextet a character stands for, -1 for a character outside the
\* alphabet ('+' and '/' are still accepted after the translation of - and _).
B64Index(c) ==
    IF c >= 65 /\ c <= 90 THEN c - 65
    ELSE IF c >= 97 /\ c <= 122 THEN c - 97 + 26
    ELSE IF c >= 48 /\ c <= 57 THEN c - 48 + 52
    ELSE IF c = 45 \/ c = 43 THEN 62
    ELSE IF c = 95 \/ c = 47 THEN 63 ELSE -1

RECURSIVE B64EncodeSeq(_)
B64EncodeSeq(bs) ==
    IF Len(bs) = 0 THEN << >>
    ELSE IF Len(bs) = 1
    THEN << B64Char(bs[1] \div 4), B64Char((bs[1] % 4) * 16), PadChar, PadChar >>
    ELSE IF Len(bs) = 2
    THEN << B64Char(bs[1] \div 4), B64Char((bs[1] % 4) * 16 + (bs[2] \div 16)),
            B64Char((bs[2] % 16) * 4), PadChar >>
    ELSE << B64Char(bs[1] \div 4), B64Char((bs[1] % 4) * 16 + (bs[2] \div 16)),
            B64Char((bs[2] % 16) * 4 + (bs[3] \div 64)), B64Char(bs[3] % 64) >>
         \o B64EncodeSeq(SubSeq(bs, 4, Len(bs)))

urlsafe_b64encode(b) == Bytes(B64EncodeSeq(b.data))

RECURSIVE B64DecodeSextets(_)
B64DecodeSextets(x) ==
    IF Len(x) < 2 THEN << >>
    ELSE IF Len(x) = 2 THEN << x[1] * 4 + (x[2] \div 16) >>
    ELSE IF Len(x) = 3
    THEN << x[1] * 4 + (x[2] \div 16), (x[2] % 16) * 16 + (x[3] \div 4) >>
    ELSE << x[1] * 4 + (x[2] \div 16), (x[2] % 16) * 16 + (x[3] \div 4),
            (x[3] % 4) * 64 + x[4] >>
         \o B64DecodeSextets(SubSeq(x, 5, Len(x)))

\* Non-alphabet characters are discarded; a last group of one character, or
\* of two or three without their padding, is binascii.Error.
urlsafe_b64decode(b) ==
    LET valid == SelectSeq(b.data, LAMBDA c : B64Index(c) >= 0)
        pads == Len(SelectSeq(b.data, LAMBDA c : c = PadChar))
        sextets == [i \in 1..Len(valid) |-> B64Index(valid[i])]
        r == Len(valid) % 4
    IN IF r = 1 \/ (r = 2 /\ pads < 2) \/ (r = 3 /\ pads < 1)
       THEN Raise("binascii.Error")
       ELSE Ok(Bytes(B64DecodeSextets(sextets)))

(***************************************************************************)
(* key_generate.py                                                         *)
(***************************************************************************)
\* The passphrases typed into the key field: "", "a" and "é".
Passphrases == { Str(<< >>), Str(<< 97 >>), Str(<< 233 >>) }

\* hashlib.sha256(...).digest(), tabulated once over the byte strings the
\* passphrases encode to.
hashlib_sha256 == [m \in { encode(p).data : p \in Passphrases } |-> Bytes(sha256(m))]

\* A derivation that ignores what was typed and hashes the empty string.
to_url_safe_base64_32_bytes_constant(user_input_) ==
    decode(urlsafe_b64encode(hashlib_sha256[<< >>])).val

\* A derivation that strips the base64 padding from the result.
to_url_safe_base64_32_bytes_unpadded(user_input_) ==
    LET b == IF user_input_.type = "str" THEN encode(user_input_) ELSE user_input_
        e == urlsafe_b64encode(hashlib_sha256[b.data])
    IN decode(Bytes(SelectSeq(e.data, LAMBDA c : c # PadChar))).val

\* A derivation that memoises on the length of the input: an input as long
\* as the previous run's gets the previous run's key.
to_url_safe_base64_32_bytes_stale(user_input_) ==
    LET b == IF user_input_.type = "str" THEN encode(user_input_) ELSE user_input_
    IN IF key # None /\ Len(user_input_.data) = Len(user_input.data)
       THEN key
       ELSE decode(urlsafe_b64encode(hashlib_sha256[b.data])).val

to_url_safe_base64_32_bytes(user_input_) ==
    LET b == IF user_input_.type = "str" THEN encode(user_input_) ELSE user_input_
        hashed_input == hashlib_sha256[b.data]
        url_safe_encoded == decode(urlsafe_b64encode(hashed_input)).val
    IN url_safe_encoded

\* key_g.to_url_safe_base64_32_bytes(user_input) of main, line 30, tabulated
\* over the passphrases.
DerivedKeys == [p \in Passphrases |-> to_url_safe_base64_32_bytes(p)]

(***************************************************************************)
(* Files and byte strings the program handles.  An encoded image is what   *)
(* the codec reads from it: format tag, size, pixels, and whether the      *)
(* pixel data is complete (Image.open reads the header only).              *)
(***************************************************************************)
NoFile == [kind |-> "none"]

ImageBytes(format, size, pixels, complete) ==
    [kind |-> "image", format |-> format, size |-> size, pixels |-> pixels,
     complete |-> complete]

RawBytes(text) == [kind |-> "raw", text |-> text]

\* A 2x1 PNG, a 1x2 JPEG whose pixels the default JPEG quantisation moves,
\* a PNG cut short after its header, and a text file named like an image.
PngFile == ImageBytes("PNG", << 2, 1 >>, << 1, 2 >>, TRUE)
JpegFile == ImageBytes("JPEG", << 1, 2 >>, << 3, 0 >>, TRUE)
TruncatedPng == ImageBytes("PNG", << 2, 1 >>, << 1 >>, FALSE)
NotAnImage == RawBytes("hello")

ImageUploads == { PngFile, JpegFile, TruncatedPng, NotAnImage }

(***************************************************************************)
(* PIL.Image                                                               *)
(***************************************************************************)
\* Image.open(fp): identifies the format from the header; the pixels are
\* loaded on first use.
Image_open(fp) ==
    IF fp.kind = "image"
    THEN Ok([format |-> fp.format, size |-> fp.size, fp |-> fp])
    ELSE Raise("UnidentifiedImageError")

\* Image.load(): the decoded pixels, OSError on a truncated file.
Image_load(image) ==
    IF image.fp.complete THEN Ok(image.fp.pixels) ELSE Raise("OSError")

\* The JPEG encoder is lossy: at its default quality a pixel value is
\* rounded to the quantisation step.  PNG is lossless.
Quantise(px) == [i \in 1..Len(px) |-> px[i] - (px[i] % 2)]

\* image.save(buffer, format=format); buffer.getvalue()
Image_save(image, format) ==
    LET px == Image_load(image)
    IN IF ~px.ok THEN px
       ELSE Ok(ImageBytes(format, image.size,
                          IF format = "JPEG" THEN Quantise(px.val) ELSE px.val,
                          TRUE))

\* str.lower() on a format tag.
lower(format) ==
    CASE format = "PNG" -> "png"
      [] format = "JPEG" -> "jpeg"
      [] OTHER -> format

(***************************************************************************)
(* cryptography.fernet.Fernet.  The cipher and the MAC are symbolic:       *)
(* a ciphertext opens under the encryption key and IV it was made with,    *)
(* and an HMAC verifies under the signing key and over the exact fields    *)
(* it was computed from.                                                   *)
(***************************************************************************)
FernetVersion == 128

\* Fernet(key): the key is 32 url-safe base64-encoded bytes, split into a
\* signing key and an encryption key.
Fernet(key_) ==
    LET k == urlsafe_b64decode(key_)
    IN IF ~k.ok \/ Len(k.val.data) # 32
       THEN Raise("ValueError")
       ELSE Ok([signing_key |-> SubSeq(k.val.data, 1, 16),
                encryption_key |-> SubSeq(k.val.data, 17, 32)])

\* Fernet(key) of encrypt_image and decrypt_image, tabulated over the
\* derived keys as main passes them (key.encode()).
Fernets == [k \in { encode(DerivedKeys[p]) : p \in Passphrases } |-> Fernet(k)]

\* fernet._encrypt_from_parts(data, current_time, iv)
Fernet_encrypt_from_parts(fernet, data, current_time, iv) ==
    LET ciphertext == [encryption_key |-> fernet.encryption_key, iv |-> iv,
                       plaintext |-> data, intact |-> TRUE]
    IN [kind |-> "token", version |-> FernetVersion, timestamp |-> current_time,
        iv |-> iv, ciphertext |-> ciphertext,
        hmac |-> [signing_key |-> fernet.signing_key,
                  signed |-> << FernetVersion, current_time, iv, ciphertext >>]]

\* fernet.encrypt(data): the tokens it can return, one for each time and
\* IV it can draw.
Fernet_encrypt(fernet, data) ==
    { Fernet_encrypt_from_parts(fernet, data, current_time, iv) :
        current_time \in 0..MaxTime, iv \in 0..MaxIV }

\* fernet.decrypt(token) with no ttl: InvalidToken unless the blob is a
\* token of this version whose HMAC verifies and whose ciphertext opens.
Fernet_decrypt(fernet, token) ==
    IF token.kind # "token" THEN Raise("InvalidToken")
    ELSE IF token.version # FernetVersion THEN Raise("InvalidToken")
    ELSE IF token.hmac # [signing_key |-> fernet.signing_key,
                          signed |-> << token.version, token.timestamp, token.iv,
                                        token.ciphertext >>]
         THEN Raise("InvalidToken")
    ELSE IF token.ciphertext.encryption_key # fernet.encryption_key
            \/ token.ciphertext.iv # token.iv
         THEN Raise("InvalidToken")
    ELSE Ok(token.ciphertext.plaintext)

\* A stored token with a bit of its ciphertext flipped, and one cut short
\* so that its last bytes are no longer the HMAC.
Tamper(token) == [token EXCEPT !.ciphertext.intact = FALSE]
Truncate(token) == [token EXCEPT !.hmac = [signing_key |-> << >>, signed |-> << >>]]

(***************************************************************************)
(* main.py                                                                 *)
(***************************************************************************)
\* What one run of main() leaves on the page: the kind of outcome, the text
\* of the st.success/st.warning/st.error box, the class of the exception
\* reported or escaping, the images shown by st.image, and the download
\* button.  kind "exception" is an exception that left main() uncaught.
NoDownload == [label |-> "", data |-> NoFile, file_name |-> "", mime |-> ""]

Blank == [kind |-> "none", text |-> "", exc |-> "", images |-> << >>,
          download |-> NoDownload]

st_warning(text, images) == [Blank EXCEPT !.kind = "warning", !.text = text,
                                           !.images = images]

st_error(text, e, images) == [Blank EXCEPT !.kind = "error", !.text = text,
                                            !.exc = e, !.images = images]

Escapes(e, images) == [Blank EXCEPT !.kind = "exception", !.exc = e,
                                     !.images = images]

\* st.image(image, caption=...): renders the loaded pixels.
st_image(image, caption) ==
    LET px == Image_load(image)
    IN IF ~px.ok THEN px
       ELSE Ok([caption |-> caption, size |-> image.size, pixels |-> px.val])

\* An encrypt_image that always writes PNG.
\* Lines 11-12 of encrypt_image, given what lines 8-10 produced: the
\* results it can have, an exception or one of the tokens the cipher can
\* return.
EncryptSaved(fernet, image_bytes) ==
    IF ~fernet.ok THEN { fernet }
    ELSE IF ~image_bytes.ok THEN { image_bytes }
    ELSE { Ok(encrypted_data) :
             encrypted_data \in Fernet_encrypt(fernet.val, image_bytes.val) }

encrypt_image_as_png(image, key_) ==
    EncryptSaved(Fernets[key_], Image_save(image, "PNG"))

encrypt_image(image, key_) ==
    EncryptSaved(Fernets[key_], Image_save(image, image.format))

\* Line 18 of decrypt_image, given what line 17 produced.
OpenDecrypted(decrypted_data) ==
    IF ~decrypted_data.ok THEN decrypted_data ELSE Image_open(decrypted_data.val)

\* Lines 17-19 of decrypt_image, given what line 16 produced.
DecryptWith(fernet, encrypted_data) ==
    IF ~fernet.ok THEN fernet
    ELSE OpenDecrypted(Fernet_decrypt(fernet.val, encrypted_data))

decrypt_image(encrypted_data, key_) == DecryptWith(Fernets[key_], encrypted_data)

\* Python truthiness of a str: non-empty.
Truthy(s) == Len(s.data) > 0

\* The branch "Encrypt an Image" of main, lines 33-53: the pages it can
\* render, one for each result encrypt_image can have.
EncryptBranch(uploaded_file, key_) ==
    IF uploaded_file = NoFile THEN { Blank }
    ELSE
      LET image == Image_open(uploaded_file)
          shown == st_image(image.val, "Original Image")
      IN IF ~image.ok THEN { Escapes(image.exc, << >>) }
         ELSE IF ~shown.ok THEN { Escapes(shown.exc, << >>) }
         ELSE IF ~Truthy(key_)
              THEN { st_warning("Please provide a valid encryption key.",
                                << shown.val >>) }
         ELSE { IF ~encrypted_data.ok
                THEN st_error("Encryption failed: ", encrypted_data.exc, << shown.val >>)
                ELSE [kind |-> "success", text |-> "Image Encrypted Successfully!",
                      exc |-> "", images |-> << shown.val >>,
                      download |-> [label |-> "Download Encrypted Image",
                                    data |-> encrypted_data.val,
                                    file_name |-> "encrypted_image.enc",
                                    mime |-> "application/octet-stream"]] :
                  encrypted_data \in encrypt_image(image.val, encode(key_)) }

\* The download button of a decrypted image with the format tag unchanged
\* in the name and the MIME type.
DecryptedDownload_raw_tag(data, decrypted_image_format) ==
    [label |-> "Download Decrypted Image", data |-> data,
     file_name |-> "decrypted_image." \o decrypted_image_format,
     mime |-> "image/" \o decrypted_image_format]

\* The download button of a decrypted image, lines 72-77.
DecryptedDownload(data, decrypted_image_format) ==
    [label |-> "Download Decrypted Image", data |-> data,
     file_name |-> "decrypted_image." \o lower(decrypted_image_format),
     mime |-> "image/" \o lower(decrypted_image_format)]

\* Lines 68-77, given the decrypted image and what st.image rendered of it:
\* the page, or the exception raised and the images shown before it.
OfferDecrypted(decrypted_image, shown) ==
    LET decrypted_image_format == IF decrypted_image.format = ""
                                  THEN "PNG" ELSE decrypted_image.format
        decrypted_image_bytes == Image_save(decrypted_image, decrypted_image_format)
    IN IF ~shown.ok THEN [raised |-> shown.exc, page |-> Blank]
       ELSE IF ~decrypted_image_bytes.ok
            THEN [raised |-> decrypted_image_bytes.exc,
                  page |-> [Blank EXCEPT !.images = << shown.val >>]]
       ELSE [raised |-> "",
             page |-> [kind |-> "success", text |-> "", exc |-> "",
                       images |-> << shown.val >>,
                       download |-> DecryptedDownload(decrypted_image_bytes.val,
                                                      decrypted_image_format)]]

\* Lines 66-77, given what decrypt_image returned or raised.
ShowDecrypted(decrypted_image) ==
    IF ~decrypted_image.ok THEN [raised |-> decrypted_image.exc, page |-> Blank]
    ELSE OfferDecrypted(decrypted_image.val,
                        st_image(decrypted_image.val, "Decrypted Image"))

\* The try block of the decrypt branch, lines 59-77: the page it renders,
\* or the exception it raises and the images shown before it.
DecryptTry(encrypted_file, key_) ==
    ShowDecrypted(decrypt_image(encrypted_file, encode(key_)))

\* An except clause that catches only the cipher's error.
ExceptInvalidToken(try) ==
    IF try.raised = "" THEN try.page
    ELSE IF try.raised = "InvalidToken"
         THEN st_error("Decryption failed: ", try.raised, try.page.images)
    ELSE Escapes(try.raised, try.page.images)

\* An except clause that leaves the previous run's decrypted image on the
\* page.
ExceptKeepLast(try) ==
    IF try.raised = "" THEN try.page
    ELSE IF out.kind = "success" /\ out.text = "" THEN out
    ELSE st_error("Decryption failed: ", try.raised, try.page.images)

\* except Exception as e: st.error(f"Decryption failed: {e}"), lines 78-79.
ExceptException(try) ==
    IF try.raised = "" THEN try.page
    ELSE st_error("Decryption failed: ", try.raised, try.page.images)

DecryptBranch_narrow_except(encrypted_file, key_) ==
    IF encrypted_file # NoFile /\ Truthy(key_)
    THEN ExceptInvalidToken(DecryptTry(encrypted_file, key_))
    ELSE st_warning("Please upload an encrypted image and provide a valid encryption key.",
                    << >>)

DecryptBranch_keeps_last(encrypted_file, key_) ==
    IF encrypted_file # NoFile /\ Truthy(key_)
    THEN ExceptKeepLast(DecryptTry(encrypted_file, key_))
    ELSE st_warning("Please upload an encrypted image and provide a valid encryption key.",
                    << >>)

\* The branch "Decrypt an Image" of main, lines 56-81.
DecryptBranch(encrypted_file, key_) ==
    IF encrypted_file # NoFile /\ Truthy(key_)
    THEN ExceptException(DecryptTry(encrypted_file, key_))
    ELSE st_warning("Please upload an encrypted image and provide a valid encryption key.",
                    << >>)

Options == { "Encrypt an Image", "Decrypt an Image" }

\* Lines 32-81 of main, given the key of line 30: the key with each page
\* the run can render.
Branches(option_, key_, file_) ==
    { [key |-> key_, out |-> page] :
        page \in IF option_ = "Encrypt an Image"
                 THEN EncryptBranch(file_, key_)
                 ELSE { DecryptBranch(file_, key_) } }

\* One run of main() on the widget values.
main(option_, user_input_, file_) ==
    Branches(option_, DerivedKeys[user_input_], file_)

(***************************************************************************)
(* The session.  option, user_input and file are the widget values; key    *)
(* and out are the key and the page of the latest run of main.  disk is    *)
(* the downloaded encrypted_image.enc, diskSrc the passphrase and the      *)
(* upload it was made from; memo is one earlier run on a probe file, kept  *)
(* to compare the later runs with.                                         *)
(***************************************************************************)
NoSrc == [user_input |-> None, file |-> NoFile]

NoMemo == [set |-> FALSE]

\* What the claims compare between runs: the kind of outcome and, in the
\* decrypt action, the images shown and the image offered for download.
Summary(option_, out_) ==
    [kind |-> out_.kind,
     images |-> IF option_ = "Decrypt an Image" THEN out_.images ELSE << >>,
     data |-> IF option_ = "Decrypt an Image" THEN out_.download.data ELSE NoFile]

\* Blobs made with the derived keys by another holder of the passphrase:
\* authentic tokens whose payload is not a complete image.
ForeignTokens ==
    { Fernet_encrypt_from_parts(f.val, payload, 0, 0) :
        f \in { g \in { Fernets[encode(DerivedKeys[p])] : p \in Passphrases } : g.ok },
        payload \in { NotAnImage, TruncatedPng } }

\* What can be uploaded as a .enc file: the stored download, as it is,
\* tampered with or truncated; a foreign token; a file that is no token.
EncUploads ==
    (IF disk = NoFile THEN { } ELSE { disk, Tamper(disk), Truncate(disk) })
      \cup ForeignTokens \cup { NotAnImage, PngFile }

Init ==
    /\ option = "Encrypt an Image"
    /\ user_input = Str(<< >>)
    /\ file = NoFile
    /\ key = None
    /\ out = Blank
    /\ disk = NoFile
    /\ diskSrc = NoSrc
    /\ memo = NoMemo

Started == key # None

\* The files whose runs are kept for comparison: the PNG upload, and the
\* token the program makes from it under the passphrase "a" when the cipher
\* draws time 0 and IV 0.
ProbeFiles ==
    { PngFile }
      \cup { Fernet_encrypt_from_parts(f.val, PngFile, 0, 0) :
               f \in { g \in { Fernets[encode(DerivedKeys[Str(<< 97 >>)])] } : g.ok } }

\* The run that is being replaced on the page is kept in memo, or not.
Observe ==
    \/ memo' = memo
    \/ /\ memo = NoMemo
       /\ Started
       /\ file \in ProbeFiles
       /\ memo' = [set |-> TRUE, option |-> option, user_input |-> user_input,
                   file |-> file, key |-> key, summary |-> Summary(option, out)]

\* Streamlit runs main() from the top with the widget values.
Rerun(option_, user_input_, file_) ==
    /\ \E run \in main(option_, user_input_, file_) :
         /\ option' = option_
         /\ user_input' = user_input_
         /\ file' = file_
         /\ key' = run.key
         /\ out' = run.out
    /\ Observe

\* The page is opened: the first run, with the widgets' defaults.
OpenPage ==
    /\ ~Started
    /\ Rerun(option, user_input, file)
    /\ UNCHANGED << disk, diskSrc >>

\* The sidebar radio: the other branch's uploader starts empty.
SelectOption(o) ==
    /\ Started
    /\ o # option
    /\ Rerun(o, user_input, NoFile)
    /\ UNCHANGED << disk, diskSrc >>

\* The sidebar text input.
EnterKey(p) ==
    /\ Started
    /\ p # user_input
    /\ Rerun(option, p, file)
    /\ UNCHANGED << disk, diskSrc >>

\* st.file_uploader("Upload an Image", ...)
UploadImage(f) ==
    /\ Started
    /\ option = "Encrypt an Image"
    /\ f # file
    /\ Rerun(option, user_input, f)
    /\ UNCHANGED << disk, diskSrc >>

\* st.file_uploader("Upload Encrypted Image", ...)
UploadEncrypted(f) ==
    /\ Started
    /\ option = "Decrypt an Image"
    /\ f # file
    /\ Rerun(option, user_input, f)
    /\ UNCHANGED << disk, diskSrc >>

\* The uploaded file is removed from the uploader.
RemoveFile ==
    /\ Started
    /\ file # NoFile
    /\ Rerun(option, user_input, NoFile)
    /\ UNCHANGED << disk, diskSrc >>

\* The download button is clicked: the browser stores the data, an
\* encrypted blob as encrypted_image.enc, and the script runs again.
ClickDownload ==
    /\ Started
    /\ out.download # NoDownload
    /\ IF out.download.file_name = "encrypted_image.enc"
       THEN /\ disk' = out.download.data
            /\ diskSrc' = [user_input |-> user_input, file |-> file]
       ELSE UNCHANGED << disk, diskSrc >>
    /\ Rerun(option, user_input, file)

Next ==
    \/ OpenPage
    \/ \E o \in Options : SelectOption(o)
    \/ \E p \in Passphrases : EnterKey(p)
    \/ \E f \in ImageUploads : UploadImage(f)
    \/ \E f \in EncUploads : UploadEncrypted(f)
    \/ RemoveFile
    \/ ClickDownload

Spec == Init /\ [][Next]_vars

(***************************************************************************)
(* Properties.                                                             *)
(***************************************************************************)
Encrypting == Started /\ option = "Encrypt an Image"
Decrypting == Started /\ option = "Decrypt an Image"

\* The blob being decrypted is the stored download, unmodified.
DecryptingStored == Decrypting /\ disk # NoFile /\ file = disk

\* The page reports the generic decryption failure and outputs no image.
DecryptionFailed ==
    /\ out.kind = "error"
    /\ out.text = "Decryption failed: "
    /\ out.images = << >>
    /\ out.download = NoDownload

\* C1: decrypting, with the passphrase it was encrypted under, the blob
\* made from an uploaded image shows an image with the pixels of the upload.
C1_RoundTripPixels ==
    (DecryptingStored /\ user_input = diskSrc.user_input)
        => /\ out.kind = "success"
           /\ out.images[1].pixels = diskSrc.file.pixels

\* C2: decrypting the stored blob with a passphrase other than the one it
\* was encrypted under ends in the decryption error, with no image shown
\* and none offered for download.
C2_WrongPassphraseFails ==
    (DecryptingStored /\ user_input # diskSrc.user_input) => DecryptionFailed

C2_Witness ==
    /\ DecryptingStored
    /\ user_input # diskSrc.user_input
    /\ out.exc = "InvalidToken"

\* The uploaded blob is a stored token tampered with or cut short, a file
\* that is no token, or an authentic token whose payload is not an image
\* that can be decoded.
BadBlob ==
    \/ disk # NoFile /\ file \in { Tamper(disk), Truncate(disk) }
    \/ file.kind \in { "raw", "image" }
    \/ file \in ForeignTokens

\* C3: decrypting a corrupted or truncated blob, a blob that is no token,
\* or an authentic token without a decodable image ends in the decryption
\* error: nothing escapes main and no image is output.
C3_BadBlobFails == (Decrypting /\ BadBlob) => DecryptionFailed

\* An authentic token under the current key whose image payload is cut
\* short: it opens, and fails when its pixels are loaded.
C3_Witness ==
    /\ Decrypting
    /\ file \in ForeignTokens
    /\ out.kind = "error"
    /\ out.exc = "OSError"

UrlSafeChars == { B64Char(i) : i \in 0..63 }

\* C5: every run derives a key of 44 URL-safe base64 characters, the last
\* one padding, that decode to the 32 bytes of the digest, and no run
\* fails on the key when it constructs the cipher.
C5_KeyIsFernetKey ==
    Started =>
      /\ key.type = "str"
      /\ Len(key.data) = 44
      /\ \A i \in 1..43 : key.data[i] \in UrlSafeChars
      /\ key.data[44] = PadChar
      /\ urlsafe_b64decode(encode(key)) = Ok(hashlib_sha256[encode(user_input).data])
      /\ Len(hashlib_sha256[encode(user_input).data].data) = 32
      /\ out.exc # "ValueError"

\* The empty passphrase and a one-character passphrase have each encrypted
\* an image.
C5_Witness ==
    /\ Encrypting
    /\ out.kind = "success"
    /\ user_input = Str(<< >>)
    /\ disk # NoFile
    /\ Len(diskSrc.user_input.data) = 1

\* C6: with an empty passphrase field and a file uploaded that the page
\* can show, the run ends in a warning and the operation is not attempted.
C6_EmptyKeyWarns ==
    (/\ Started
     /\ user_input = Str(<< >>)
     /\ file # NoFile
     /\ (Encrypting => file.kind = "image" /\ file.complete))
        => out.kind = "warning" /\ out.download = NoDownload

\* C7: no exception escapes main: every failure of a run is a warning or
\* an error on the page.
C7_NoExceptionEscapes == out.kind # "exception"

\* C8: decrypting, with the passphrase it was encrypted under, the blob
\* made from an uploaded PNG or JPEG gives an image with the size and the
\* format tag of the upload.
C8_RoundTripSizeAndFormat ==
    (DecryptingStored /\ user_input = diskSrc.user_input)
        => /\ out.kind = "success"
           /\ diskSrc.file.format \in { "PNG", "JPEG" }
           /\ out.images[1].size = diskSrc.file.size
           /\ out.download.data.size = diskSrc.file.size
           /\ out.download.data.format = diskSrc.file.format

C8_Witness ==
    /\ DecryptingStored
    /\ user_input = diskSrc.user_input
    /\ diskSrc.file = JpegFile
    /\ out.kind = "success"

C10_Downloads ==
    /\ (Encrypting /\ out.kind = "success")
          => /\ out.download.mime = "application/octet-stream"
             /\ out.download.data.kind = "token"
             /\ out.download.data.version = FernetVersion
             /\ out.download.data.ciphertext.plaintext
                  = Image_save(Image_open(file).val, file.format).val
    /\ (Decrypting /\ out.kind = "success")
          => LET detected == file.ciphertext.plaintext.format
             IN /\ detected \in { "PNG", "JPEG" }
                /\ out.download.data.kind = "image"
                /\ out.download.data.format = detected
                /\ detected = "PNG"
                     => /\ out.download.mime = "image/png"
                        /\ out.download.file_name = "decrypted_image.png"
                /\ detected = "JPEG"
                     => /\ out.download.mime = "image/jpeg"
                        /\ out.download.file_name = "decrypted_image.jpeg"

C10_Witness ==
    /\ Decrypting
    /\ out.kind = "success"
    /\ out.download.mime = "image/jpeg"
    /\ disk # NoFile
    /\ disk.ciphertext.plaintext = Image_save(Image_open(JpegFile).val, "JPEG").val

====
